---- MODULE Spec2Model ----
(***************************************************************************)
(* Model of the MongoDB connection lifecycle manager                       *)
(* (src/src/mongodb/connection.ts).                                        *)
(*                                                                         *)
(* JavaScript runs one callback at a time, so every action below is the    *)
(* code executed between two await points of one async function.  A null   *)
(* reference is 0; clients and the Db handles derived from them are        *)
(* numbered 1, 2, ... in the order `new MongoClient` creates them, and the *)
(* handle client.db(dbName) of client n is n.  The state holds the calls   *)
(* that are in flight; `out` is the outcome of the call that the step       *)
(* leading to the state completed, NoOutcome if it completed none.         *)
(*                                                                         *)
(* The second half models the generic CRUD engine                          *)
(* (src/src/mongodb/crud.ts) over a document store.                        *)
(***************************************************************************)
EXTENDS Integers, Sequences, FiniteSets, TLC

\* ---------------------------------------------------------------- bounds
MaxCallers == 3       \* connect() calls in flight at one time
MaxClients == 2       \* MongoClient objects created in one behaviour
MaxDisconnects == 1   \* disconnect() calls awaiting close() at one time
MaxShutdowns == 2     \* shutdown closures started by signals
MaxPings == 1         \* ping() calls awaiting their probe at one time

Signals == {"SIGINT", "SIGTERM", "SIGQUIT"}

Running == "running"  \* the process has not terminated
Killed == "killed"    \* terminated by a signal nobody listens to

NotConnected == "MongoDB connection not established. Call connect() first."

VARIABLES
  client,        \* MongoConnectionManager.client (0 = null)
  db,            \* MongoConnectionManager.db (0 = null)
  isConnected,   \* MongoConnectionManager.isConnected
  isConnecting,  \* MongoConnectionManager.isConnecting
  clients,       \* driver side: state of every MongoClient created so far
  listeners,     \* process: listeners registered per termination signal
  waiters,       \* number of connect() calls inside the polling loop
  attempts,      \* connect() calls awaiting client.connect()
  closing,       \* disconnect() calls awaiting close(): their clients, in call order
  shutdowns,     \* invocations of the shutdown closure, in start order
  probing,       \* number of ping() calls awaiting the probe
  exitCode,      \* Running, Killed, or the argument of process.exit ("0", "1")
  out,           \* outcome of the call the last step completed, if any
  burstBase,     \* number of clients that existed when the current burst began
  burstHandles,  \* handles returned by the connect() calls of the current burst
  burstFailures, \* connect() calls of the current burst that threw
  burstClean,    \* no disconnect()/shutdown overlapped the current burst
  engine,        \* the MongoCRUD instance: its options and its collection
  store,         \* server side: the documents of the collection, in natural order
  nextId,        \* number of identifiers generated so far
  ops,           \* engine operations awaiting a store call, in call order
  res,           \* result of the engine operation the last step completed, if any
  callers        \* callers of the engine: how many operations may be in flight

vars == <<client, db, isConnected, isConnecting, clients, listeners, waiters,
          attempts, closing, shutdowns, probing, exitCode, out,
          burstBase, burstHandles, burstFailures, burstClean,
          engine, store, nextId, ops, res, callers>>

crud == <<engine, store, nextId, ops, res, callers>>

connection == <<client, db, isConnected, isConnecting, clients, listeners,
                waiters, attempts, closing, shutdowns, probing, exitCode, out,
                burstBase, burstHandles, burstFailures, burstClean>>

manager == <<client, db, isConnected, isConnecting>>
burst == <<burstBase, burstHandles, burstFailures, burstClean>>

\* ------------------------------------------------------- pure accessors
\* the outcome of a synchronous call: a thrown error or a returned value
Throw(msg) == [threw |-> TRUE, value |-> 0, error |-> msg]

Return(v) == [threw |-> FALSE, value |-> v, error |-> ""]

GetDb == IF db = 0 \/ ~isConnected THEN Throw(NotConnected) ELSE Return(db)

GetClient == IF client = 0 \/ ~isConnected THEN Throw(NotConnected) ELSE Return(client)

IsConnectionActive == isConnected /\ client # 0 /\ db # 0

ConnectError(cause) == <<"Failed to connect to MongoDB: ", cause>>

\* ------------------------------------------------- outcomes of async calls
\* op: the method; path: the branch it took; handle: the Db it resolved to;
\* answer: the boolean it resolved to; error: what it rejected with
Resolved(op, path, handle, answer) ==
  [op |-> op, path |-> path, threw |-> FALSE, handle |-> handle,
   answer |-> answer, error |-> <<>>]

Rejected(op, path, error) ==
  [op |-> op, path |-> path, threw |-> TRUE, handle |-> 0,
   answer |-> FALSE, error |-> error]

NoOutcome == Resolved("none", "none", 0, FALSE)

\* no MongoCRUD instance has been constructed
NoEngine == [built |-> FALSE, handle |-> 0, useObjectId |-> FALSE, declaresId |-> FALSE]

\* no engine operation completed in the last step
NoResult == [op |-> "none", threw |-> FALSE]

\* ------------------------------------------------------------- helpers
AnyInProgress == waiters > 0 \/ attempts # {}

ClosePending ==
  \/ closing # <<>>
  \/ \E i \in 1..Len(shutdowns) : shutdowns[i].disc = "pending"

Remove(seq, i) == SubSeq(seq, 1, i - 1) \o SubSeq(seq, i + 1, Len(seq))

Init ==
  /\ client = 0
  /\ db = 0
  /\ isConnected = FALSE
  /\ isConnecting = FALSE
  /\ clients = <<>>
  /\ listeners = [s \in Signals |-> 0]
  /\ waiters = 0
  /\ attempts = {}
  /\ closing = <<>>
  /\ shutdowns = <<>>
  /\ probing = 0
  /\ exitCode = Running
  /\ out = NoOutcome
  /\ burstBase = 0
  /\ burstHandles = {}
  /\ burstFailures = 0
  /\ burstClean = TRUE
  /\ engine = NoEngine
  /\ store = <<>>
  /\ nextId = 0
  /\ ops = <<>>
  /\ res = NoResult
  /\ callers = 1

\* ------------------------------------------------------------ connect()
\* line 30: the early return of an established handle
AlreadyConnectedNever == FALSE
AlreadyConnected == isConnected /\ db # 0

\* line 34: another connect() is mid-flight
AttemptInFlightNever == FALSE
AttemptInFlight == isConnecting

\* line 36: the polling loop is left once the flag is down
WaitOverAlways == TRUE
WaitOverNever == FALSE
WaitOver == ~isConnecting

\* lines 44-48: raise the flag, create the client, issue client.connect()
BeginAttemptMarksConnected(waited) ==
  /\ Len(clients) < MaxClients
  /\ isConnecting' = TRUE
  /\ isConnected' = TRUE
  /\ clients' = Append(clients, "connecting")
  /\ client' = Len(clients) + 1
  /\ attempts' = attempts \cup {[own |-> Len(clients) + 1, waited |-> waited]}
  /\ db' = db
BeginAttemptLeavesFlag(waited) ==
  /\ Len(clients) < MaxClients
  /\ isConnecting' = isConnecting
  /\ clients' = Append(clients, "connecting")
  /\ client' = Len(clients) + 1
  /\ attempts' = attempts \cup {[own |-> Len(clients) + 1, waited |-> waited]}
  /\ UNCHANGED <<db, isConnected>>
BeginAttempt(waited) ==
  /\ Len(clients) < MaxClients
  /\ isConnecting' = TRUE
  /\ clients' = Append(clients, "connecting")
  /\ client' = Len(clients) + 1
  /\ attempts' = attempts \cup {[own |-> Len(clients) + 1, waited |-> waited]}
  /\ UNCHANGED <<db, isConnected>>

\* a burst of overlapping connect() calls begins with a call that finds no
\* other connect() in progress; h: the handles this call itself returns
JoinBurst(h) ==
  IF AnyInProgress
    THEN /\ burstHandles' = burstHandles \cup h
         /\ UNCHANGED <<burstBase, burstFailures, burstClean>>
    ELSE /\ burstBase' = Len(clients)
         /\ burstHandles' = h
         /\ burstFailures' = 0
         /\ burstClean' = ~ClosePending

\* lines 29-48: a connect() call up to its first await (or its return)
ConnectCall ==
  /\ exitCode = Running
  /\ UNCHANGED crud
  /\ waiters + Cardinality(attempts) < MaxCallers
  /\ IF AlreadyConnected
       THEN /\ out' = Resolved("connect", "early", db, FALSE)
            /\ JoinBurst({db})
            /\ UNCHANGED <<manager, clients, waiters, attempts>>
       ELSE IF AttemptInFlight
         THEN /\ waiters' = waiters + 1
              /\ JoinBurst({})
              /\ out' = NoOutcome
              /\ UNCHANGED <<manager, clients, attempts>>
         ELSE /\ BeginAttempt(FALSE)
              /\ JoinBurst({})
              /\ out' = NoOutcome
              /\ UNCHANGED waiters
  /\ UNCHANGED <<listeners, closing, shutdowns, probing, exitCode>>

\* lines 36-48: a timer of the polling loop fires and the loop ends
WaiterWake ==
  /\ exitCode = Running
  /\ UNCHANGED crud
  /\ waiters > 0
  /\ WaitOver
  /\ waiters' = waiters - 1
  /\ IF db # 0
       THEN /\ out' = Resolved("connect", "waited", db, FALSE)
            /\ burstHandles' = burstHandles \cup {db}
            /\ UNCHANGED <<manager, clients, attempts>>
       ELSE /\ BeginAttempt(TRUE)
            /\ out' = NoOutcome
            /\ UNCHANGED burstHandles
  /\ UNCHANGED <<listeners, closing, shutdowns, probing, exitCode,
                 burstBase, burstFailures, burstClean>>

\* lines 113-115: one more listener on each of the three signals
SetupShutdownHandlers == listeners' = [s \in Signals |-> listeners[s] + 1]

\* lines 57-60: the catch block of connect()
ConnectCatchKeepsFlag(a, cause) ==
  /\ attempts' = attempts \ {a}
  /\ out' = Rejected("connect", IF a.waited THEN "retried" ELSE "attempted",
                     ConnectError(cause))
  /\ burstFailures' = burstFailures + 1
  /\ UNCHANGED <<isConnecting, client, db, isConnected, listeners, burstHandles>>
ConnectCatch(a, cause) ==
  /\ isConnecting' = FALSE
  /\ attempts' = attempts \ {a}
  /\ out' = Rejected("connect", IF a.waited THEN "retried" ELSE "attempted",
                     ConnectError(cause))
  /\ burstFailures' = burstFailures + 1
  /\ UNCHANGED <<client, db, isConnected, listeners, burstHandles>>

\* the driver's record of a client whose connect() has settled
Settle(n, outcome) ==
  IF clients[n] = "connecting" THEN [clients EXCEPT ![n] = outcome] ELSE clients

\* lines 48-56: client.connect() resolved
AttemptResolved(a) ==
  /\ exitCode = Running
  /\ UNCHANGED crud
  /\ a \in attempts
  /\ clients' = Settle(a.own, "open")
  /\ IF client = 0
       THEN \* line 49 dereferences this.client, which disconnect() has nulled
            ConnectCatch(a, "TypeError")
       ELSE /\ db' = client
            /\ isConnected' = TRUE
            /\ isConnecting' = FALSE
            /\ SetupShutdownHandlers
            /\ attempts' = attempts \ {a}
            /\ out' = Resolved("connect", IF a.waited THEN "retried" ELSE "attempted",
                               client, FALSE)
            /\ burstHandles' = burstHandles \cup {client}
            /\ UNCHANGED <<client, burstFailures>>
  /\ UNCHANGED <<waiters, closing, shutdowns, probing, exitCode, burstBase, burstClean>>

\* lines 48, 57-60: client.connect() rejected
AttemptRejected(a) ==
  /\ exitCode = Running
  /\ UNCHANGED crud
  /\ a \in attempts
  /\ clients' = Settle(a.own, "failed")
  /\ ConnectCatch(a, "MongoServerSelectionError")
  /\ UNCHANGED <<waiters, closing, shutdowns, probing, exitCode, burstBase, burstClean>>

\* --------------------------------------------------------- disconnect()
\* a disconnect() or shutdown that starts during a burst of connect() calls
TouchBurst ==
  /\ burstClean' = (IF AnyInProgress THEN FALSE ELSE burstClean)
  /\ UNCHANGED <<burstBase, burstHandles, burstFailures>>

\* lines 66-68: the handle is discarded
DiscardKeepsDb ==
  /\ client' = 0
  /\ isConnected' = FALSE
  /\ db' = db
DiscardNothing == UNCHANGED <<client, db, isConnected>>
Discard ==
  /\ client' = 0
  /\ db' = 0
  /\ isConnected' = FALSE

\* lines 63-65: disconnect() up to its await of client.close()
DisconnectCall ==
  /\ exitCode = Running
  /\ UNCHANGED crud
  /\ Len(closing) < MaxDisconnects
  /\ IF client # 0
       THEN /\ closing' = Append(closing, client)
            /\ TouchBurst
            /\ out' = NoOutcome
       ELSE /\ out' = Resolved("disconnect", "nothing to close", 0, FALSE)
            /\ UNCHANGED <<closing, burst>>
  /\ UNCHANGED <<manager, clients, listeners, waiters, attempts, shutdowns,
                 probing, exitCode>>

\* lines 65-69: client.close() resolved
DisconnectResolved(i) ==
  /\ exitCode = Running
  /\ UNCHANGED crud
  /\ i \in 1..Len(closing)
  /\ clients' = [clients EXCEPT ![closing[i]] = "closed"]
  /\ Discard
  /\ closing' = Remove(closing, i)
  /\ out' = Resolved("disconnect", "closed", closing[i], FALSE)
  /\ UNCHANGED <<isConnecting, listeners, waiters, attempts, shutdowns, probing,
                 exitCode, burst>>

\* line 65: client.close() rejected; the rejection reaches the caller
DisconnectRejected(i) ==
  /\ exitCode = Running
  /\ UNCHANGED crud
  /\ i \in 1..Len(closing)
  /\ closing' = Remove(closing, i)
  /\ out' = Rejected("disconnect", "close failed", <<"close failed">>)
  /\ UNCHANGED <<manager, clients, listeners, waiters, attempts, shutdowns,
                 probing, exitCode, burst>>

\* ------------------------------------------------------ shutdown closure
\* pc: where the closure stands; disc: how its disconnect() call ended
Run(pc, disc, target) == [pc |-> pc, disc |-> disc, target |-> target]

\* lines 103-106: k listeners of one signal run up to their first await;
\* with nothing to close the first of them goes on to process.exit(0)
StartShutdownsExitFirst(k) ==
  /\ shutdowns' = shutdowns \o
       [j \in 1..k |-> Run(IF j = 1 THEN "exit0" ELSE "awaiting",
                           IF client = 0 THEN "done" ELSE "pending", client)]
  /\ exitCode' = "0"
StartShutdowns(k) ==
  IF client = 0
    THEN /\ shutdowns' = shutdowns \o
              [j \in 1..k |-> Run(IF j = 1 THEN "exit0" ELSE "awaiting", "done", 0)]
         /\ exitCode' = "0"
    ELSE /\ shutdowns' = shutdowns \o [j \in 1..k |-> Run("awaiting", "pending", client)]
         /\ exitCode' = exitCode

\* a termination signal is delivered to the process
Signal(s) ==
  /\ exitCode = Running
  /\ UNCHANGED crud
  /\ IF listeners[s] = 0
       THEN /\ exitCode' = Killed
            /\ UNCHANGED <<shutdowns, burst>>
       ELSE /\ Len(shutdowns) + listeners[s] <= MaxShutdowns
            /\ StartShutdowns(listeners[s])
            /\ TouchBurst
  /\ out' = NoOutcome
  /\ UNCHANGED <<manager, clients, listeners, waiters, attempts, closing, probing>>

\* lines 105-106: the awaited disconnect() completed, process.exit(0)
ShutdownResolved(i) ==
  /\ exitCode = Running
  /\ UNCHANGED crud
  /\ i \in 1..Len(shutdowns)
  /\ shutdowns[i].pc = "awaiting"
  /\ shutdowns[i].disc = "pending"
  /\ clients' = [clients EXCEPT ![shutdowns[i].target] = "closed"]
  /\ Discard
  /\ shutdowns' = [shutdowns EXCEPT ![i].pc = "exit0", ![i].disc = "done"]
  /\ exitCode' = "0"
  /\ out' = NoOutcome
  /\ UNCHANGED <<isConnecting, listeners, waiters, attempts, closing, probing, burst>>

\* lines 107-109: the awaited disconnect() threw, process.exit(1)
ShutdownRejected(i) ==
  /\ exitCode = Running
  /\ UNCHANGED crud
  /\ i \in 1..Len(shutdowns)
  /\ shutdowns[i].pc = "awaiting"
  /\ shutdowns[i].disc = "pending"
  /\ shutdowns' = [shutdowns EXCEPT ![i].pc = "exit1", ![i].disc = "failed"]
  /\ exitCode' = "1"
  /\ out' = NoOutcome
  /\ UNCHANGED <<manager, clients, listeners, waiters, attempts, closing,
                 probing, burst>>

\* ---------------------------------------------------------------- ping()
\* lines 91-95: ping() up to its await of db.admin().ping()
PingCall ==
  /\ exitCode = Running
  /\ UNCHANGED crud
  /\ probing < MaxPings
  /\ IF ~isConnected \/ db = 0
       THEN /\ out' = Resolved("ping", "not connected", 0, FALSE)
            /\ UNCHANGED probing
       ELSE /\ probing' = probing + 1
            /\ out' = NoOutcome
  /\ UNCHANGED <<manager, clients, listeners, waiters, attempts, closing,
                 shutdowns, exitCode, burst>>

\* lines 95-96: the probe answered
PingResolved ==
  /\ exitCode = Running
  /\ UNCHANGED crud
  /\ probing > 0
  /\ probing' = probing - 1
  /\ out' = Resolved("ping", "probe ok", 0, TRUE)
  /\ UNCHANGED <<manager, clients, listeners, waiters, attempts, closing,
                 shutdowns, exitCode, burst>>

\* lines 97-99: the probe failed and the catch block answers false
PingCatchRethrows == out' = Rejected("ping", "probe failed", <<"probe failed">>)
PingCatch == out' = Resolved("ping", "probe failed", 0, FALSE)

PingRejected ==
  /\ exitCode = Running
  /\ UNCHANGED crud
  /\ probing > 0
  /\ probing' = probing - 1
  /\ PingCatch
  /\ UNCHANGED <<manager, clients, listeners, waiters, attempts, closing,
                 shutdowns, exitCode, burst>>

\* ------------------------------------------------------- specification
AttemptSlots == [own : 1..MaxClients, waited : BOOLEAN]

Next ==
  \/ ConnectCall
  \/ WaiterWake
  \/ \E a \in AttemptSlots : AttemptResolved(a)
  \/ \E a \in AttemptSlots : AttemptRejected(a)
  \/ DisconnectCall
  \/ \E i \in 1..MaxDisconnects : DisconnectResolved(i)
  \/ \E i \in 1..MaxDisconnects : DisconnectRejected(i)
  \/ \E s \in Signals : Signal(s)
  \/ \E i \in 1..MaxShutdowns : ShutdownResolved(i)
  \/ \E i \in 1..MaxShutdowns : ShutdownRejected(i)
  \/ PingCall
  \/ PingResolved
  \/ PingRejected

Spec == Init /\ [][Next]_vars

\* connect() and disconnect() callers whose timers fire and whose
\* client.connect() calls settle
NextWait ==
  \/ ConnectCall
  \/ WaiterWake
  \/ \E a \in AttemptSlots : AttemptResolved(a)
  \/ \E a \in AttemptSlots : AttemptRejected(a)
  \/ DisconnectCall
  \/ \E i \in 1..MaxDisconnects : DisconnectResolved(i)
  \/ \E i \in 1..MaxDisconnects : DisconnectRejected(i)

\* line 37: a pending timer fires; line 48: a pending attempt settles
SpecWait ==
  /\ Init
  /\ [][NextWait]_vars
  /\ WF_vars(WaiterWake)
  /\ WF_vars(\E a \in AttemptSlots : AttemptResolved(a) \/ AttemptRejected(a))

\* ============================================================ CRUD engine
\* ------------------------------------------------------------ documents
MaxDocs == 3          \* identifiers generated, hence documents created

\* the declared shape: the keys of the schema besides _id, in schema order
Fields == <<"name", "age">>

Valid == {"a", "b"}      \* field values the schema accepts
Invalid == "invalid"     \* a value of the wrong type or range
Absent == "absent"       \* the key is missing (undefined)

\* identifiers: an ObjectId object, or a string that is the 24 hex digits of
\* an ObjectId, a v4 UUID, or neither
OID(n) == [kind |-> "ObjectId", form |-> "oid", n |-> n]

Hex(n) == [kind |-> "string", form |-> "hex24", n |-> n]

Uuid(n) == [kind |-> "string", form |-> "uuid", n |-> n]

Junk == [kind |-> "string", form |-> "junk", n |-> 0]

NoId == [kind |-> "undefined", form |-> "none", n |-> 0]

\* ObjectId.isValid on a string
ObjectIdIsValid(id) == id.form = "hex24"

\* line 73: new ObjectId() or uuidv4(); the k-th identifier generated
GenerateIdRepeats(useObjectId, k) == IF useObjectId THEN OID(1) ELSE Uuid(1)
GenerateId(useObjectId, k) == IF useObjectId THEN OID(k) ELSE Uuid(k)

\* lines 77-88: the identifier the store is queried with, or the error thrown
ValidateIdAcceptsAll(useObjectId, id) == Return(id)
ValidateIdKeepsString(useObjectId, id) ==
  IF useObjectId /\ id.kind = "string" /\ ~ObjectIdIsValid(id)
    THEN Throw(<<"Invalid ObjectId: ", id>>)
    ELSE Return(id)
ValidateId(useObjectId, id) ==
  IF useObjectId
    THEN IF id.kind = "string"
           THEN IF ~ObjectIdIsValid(id)
                  THEN Throw(<<"Invalid ObjectId: ", id>>)
                  ELSE Return(OID(id.n))
           ELSE Return(id)
    ELSE Return(id)

\* zod: the issues of the keys k..Len(Fields) of data, in schema order; a
\* partial schema accepts a missing key
RECURSIVE Issues(_, _, _)
Issues(data, partial, k) ==
  IF k > Len(Fields) THEN <<>>
  ELSE LET f == Fields[k]
           issue == IF data[f] \in Valid THEN <<>>
                    ELSE IF data[f] = Absent
                           THEN IF partial THEN <<>> ELSE <<<<f, "Required">>>>
                           ELSE <<<<f, "Invalid input">>>>
       IN issue \o Issues(data, partial, k + 1)

\* the issue of the _id key, for a schema that declares _id
IdIssues(declaresId, data, partial) ==
  IF declaresId /\ data._id = NoId /\ ~partial
    THEN <<<<"_id", "Required">>>>
    ELSE <<>>

\* lines 90-100: schema.parse(data); every issue is joined into the message
ValidateDataFirstIssue(declaresId, data) ==
  LET issues == IdIssues(declaresId, data, FALSE) \o Issues(data, FALSE, 1)
  IN IF issues = <<>>
       THEN Return([data EXCEPT !._id = IF declaresId THEN data._id ELSE NoId])
       ELSE Throw(<<"Validation failed: ", <<issues[1]>>>>)
ValidateData(declaresId, data) ==
  LET issues == IdIssues(declaresId, data, FALSE) \o Issues(data, FALSE, 1)
  IN IF issues = <<>>
       THEN Return([data EXCEPT !._id = IF declaresId THEN data._id ELSE NoId])
       ELSE Throw(<<"Validation failed: ", issues>>)

\* lines 206-216: schema.partial().parse(update.$set)
ValidateSetSkipped(declaresId, set) == Return(set)
ValidateSet(declaresId, set) ==
  LET issues == Issues(set, TRUE, 1)
  IN IF issues = <<>>
       THEN Return(set)
       ELSE Throw(<<"Update validation failed: ", issues>>)

\* ---------------------------------------------------------------- store
DefaultLimit == 100   \* line 167: limit when the options give none

\* a query filter: {} or an equality on one key
NoFilter == [field |-> "none", value |-> Absent]

Matches(doc, filter) == filter.field = "none" \/ doc[filter.field] = filter.value

\* collection.findOne({_id: id}): the document as a sequence of length 0 or 1
FindOneAny(id) == IF store = <<>> THEN <<>> ELSE <<store[1]>>
FindOne(id) ==
  LET hits == SelectSeq(store, LAMBDA d : d._id = id)
  IN IF hits = <<>> THEN <<>> ELSE <<hits[1]>>

\* collection.find(filter): the matching documents in natural order
Find(filter) == SelectSeq(store, LAMBDA d : Matches(d, filter))

\* collection.countDocuments(filter)
CountDocuments(filter) == Len(Find(filter))

\* lines 171-177: cursor.skip and cursor.limit are applied only when positive
PageSkipsAfterLimit(docs, limit, skip) ==
  LET limited == IF limit > 0 /\ limit < Len(docs) THEN SubSeq(docs, 1, limit) ELSE docs
  IN IF skip > 0 THEN SubSeq(limited, skip + 1, Len(limited)) ELSE limited
Page(docs, limit, skip) ==
  LET skipped == IF skip > 0 THEN SubSeq(docs, skip + 1, Len(docs)) ELSE docs
  IN IF limit > 0 /\ limit < Len(skipped) THEN SubSeq(skipped, 1, limit) ELSE skipped

\* an update payload {$set: set, $unset: unset}: the keys present in $set
\* replace those of the document, the keys of $unset are removed from it
ApplyUpdateReplaces(doc, update) ==
  [k \in DOMAIN doc |->
     IF k = "_id" THEN doc[k]
     ELSE IF update.hasSet THEN update.set[k]
     ELSE IF k \in update.unset THEN Absent
     ELSE doc[k]]
ApplyUpdate(doc, update) ==
  [k \in DOMAIN doc |->
     IF k = "_id" THEN doc[k]
     ELSE IF k \in update.unset THEN Absent
     ELSE IF update.hasSet /\ update.set[k] # Absent THEN update.set[k]
     ELSE doc[k]]

\* collection.updateOne({_id: id}, update) applied to the first match
UpdateOneUpserts(id, update) ==
  IF \A k \in 1..Len(store) : store[k]._id # id
    THEN Append(store, [_id |-> id, name |-> update.set.name, age |-> update.set.age])
    ELSE store
UpdateOne(id, update) ==
  [i \in 1..Len(store) |->
     IF store[i]._id = id /\ \A j \in 1..(i - 1) : store[j]._id # id
       THEN ApplyUpdate(store[i], update)
       ELSE store[i]]

\* the modifiedCount updateOne reports
ModifiedCount(id, update) == IF UpdateOne(id, update) = store THEN 0 ELSE 1

\* collection.deleteOne({_id: id}): the store without the first match
DeleteOneAny(id) == IF store = <<>> THEN store ELSE Tail(store)
DeleteOne(id) ==
  LET hits == {k \in 1..Len(store) : store[k]._id = id}
  IN IF hits = {}
       THEN store
       ELSE Remove(store, CHOOSE k \in hits : \A j \in hits : k <= j)

\* collection.deleteMany(filter): the store without the matches
DeleteMany(filter) == SelectSeq(store, LAMBDA d : ~Matches(d, filter))

\* the engine's collection belongs to a client that is connected
ReachableAfterClose == engine.handle # 0
Reachable == engine.handle # 0 /\ clients[engine.handle] = "open"

\* what a store call can do: succeed, fail in transport, or (a write sent
\* without write concern) come back unacknowledged
ReadOutcomes == IF Reachable THEN {"ok", "throws"} ELSE {"throws"}

WriteOutcomes == IF Reachable THEN {"ok", "unacknowledged", "throws"} ELSE {"throws"}

\* the message of the error a failing store call throws
StoreError == IF Reachable THEN <<"MongoNetworkError">> ELSE <<"MongoNotConnectedError">>

\* ------------------------------------------------------ result envelopes
\* arg: what the operation was called with; calls: the store calls it made
CreateSuccess(arg, doc, id, calls) ==
  [op |-> "create", threw |-> FALSE, success |-> TRUE, data |-> <<doc>>,
   id |-> id, error |-> <<>>, arg |-> arg, calls |-> calls]

CreateFailure(arg, error, calls) ==
  [op |-> "create", threw |-> FALSE, success |-> FALSE, data |-> <<>>,
   id |-> NoId, error |-> error, arg |-> arg, calls |-> calls]

FindSuccess(arg, doc, calls) ==
  [op |-> "findById", threw |-> FALSE, success |-> TRUE, data |-> <<doc>>,
   error |-> <<>>, arg |-> arg, calls |-> calls]

FindFailure(arg, error, calls) ==
  [op |-> "findById", threw |-> FALSE, success |-> FALSE, data |-> <<>>,
   error |-> error, arg |-> arg, calls |-> calls]

FindManySuccess(arg, docs, total, calls) ==
  [op |-> "findMany", threw |-> FALSE, success |-> TRUE, data |-> docs,
   total |-> total, error |-> <<>>, arg |-> arg, calls |-> calls]

FindManyFailure(arg, error, calls) ==
  [op |-> "findMany", threw |-> FALSE, success |-> FALSE, data |-> <<>>,
   total |-> 0, error |-> error, arg |-> arg, calls |-> calls]

UpdateSuccess(arg, found, modifiedCount, calls) ==
  [op |-> "updateById", threw |-> FALSE, success |-> TRUE, data |-> found,
   modifiedCount |-> modifiedCount, error |-> <<>>, arg |-> arg, calls |-> calls]

UpdateFailure(arg, error, calls) ==
  [op |-> "updateById", threw |-> FALSE, success |-> FALSE, data |-> <<>>,
   modifiedCount |-> 0, error |-> error, arg |-> arg, calls |-> calls]

DeleteSuccess(op, arg, deletedCount, calls) ==
  [op |-> op, threw |-> FALSE, success |-> TRUE, deletedCount |-> deletedCount,
   error |-> <<>>, arg |-> arg, calls |-> calls]

DeleteFailure(op, arg, error, calls) ==
  [op |-> op, threw |-> FALSE, success |-> FALSE, deletedCount |-> 0,
   error |-> error, arg |-> arg, calls |-> calls]

\* exists() and count() resolve to a bare boolean or number
Answer(op, arg, value, calls) ==
  [op |-> op, threw |-> FALSE, value |-> value, arg |-> arg, calls |-> calls]

\* ------------------------------------------------------------ constructor
\* lines 59-71: getDb() throws unless the manager is Connected; the
\* collection is taken from the handle once, here
ConstructUnchecked(useObjectId, declaresId) ==
  /\ exitCode = Running
  /\ ~engine.built
  /\ engine' = [built |-> TRUE, handle |-> db, useObjectId |-> useObjectId,
                declaresId |-> declaresId]
  /\ res' = [op |-> "construct", threw |-> FALSE, error |-> ""]
  /\ UNCHANGED <<store, nextId, ops, connection, callers>>
Construct(useObjectId, declaresId) ==
  /\ exitCode = Running
  /\ ~engine.built
  /\ IF GetDb.threw
       THEN /\ engine' = engine
            /\ res' = [op |-> "construct", threw |-> TRUE, error |-> GetDb.error]
       ELSE /\ engine' = [built |-> TRUE, handle |-> GetDb.value,
                          useObjectId |-> useObjectId, declaresId |-> declaresId]
            /\ res' = [op |-> "construct", threw |-> FALSE, error |-> ""]
  /\ UNCHANGED <<store, nextId, ops, connection, callers>>

\* a caller of the engine is free: each awaits its operation before it
\* calls the next
Idle == engine.built /\ Len(ops) < callers /\ exitCode = Running

\* ----------------------------------------------------------------- create
\* the insertedId the driver reports: the _id of the document it was given
InsertedIdUnrelated(doc) == OID(0)
InsertedId(doc) == doc._id

\* lines 108-118: validate, stamp a generated _id, call insertOne
CreateCallKeepsId(data) ==
  /\ Idle
  /\ LET validatedData == ValidateData(engine.declaresId, data)
     IN IF validatedData.threw
          THEN /\ res' = CreateFailure(data, validatedData.error, <<>>)
               /\ UNCHANGED <<nextId, ops>>
          ELSE /\ nextId < MaxDocs
               /\ nextId' = nextId + 1
               /\ ops' = Append(ops,
                    [op |-> "create", pc |-> "insertOne", arg |-> data,
                     doc |-> IF validatedData.value._id # NoId
                               THEN validatedData.value
                               ELSE [validatedData.value EXCEPT !._id =
                                       GenerateId(engine.useObjectId, nextId + 1)]])
               /\ res' = NoResult
  /\ UNCHANGED <<engine, store, connection, callers>>
CreateCall(data) ==
  /\ Idle
  /\ LET validatedData == ValidateData(engine.declaresId, data)
     IN IF validatedData.threw
          THEN /\ res' = CreateFailure(data, validatedData.error, <<>>)
               /\ UNCHANGED <<nextId, ops>>
          ELSE /\ nextId < MaxDocs
               /\ nextId' = nextId + 1
               /\ ops' = Append(ops,
                    [op |-> "create", pc |-> "insertOne", arg |-> data,
                     doc |-> [validatedData.value EXCEPT !._id =
                                GenerateId(engine.useObjectId, nextId + 1)]])
               /\ res' = NoResult
  /\ UNCHANGED <<engine, store, connection, callers>>

\* lines 119-138: the insertOne promise settles
InsertOneReturns(i, outcome, applied) ==
  /\ exitCode = Running
  /\ ops[i].op = "create" /\ ops[i].pc = "insertOne"
  /\ outcome \in WriteOutcomes
  /\ outcome # "unacknowledged" => applied
  /\ LET o == ops[i]
     IN CASE outcome = "ok" ->
               /\ store' = Append(store, o.doc)
               /\ res' = CreateSuccess(o.arg, o.doc, InsertedId(o.doc), <<"insertOne">>)
          [] outcome = "unacknowledged" ->
               /\ store' = IF applied THEN Append(store, o.doc) ELSE store
               /\ res' = CreateFailure(o.arg, <<"Insert operation was not acknowledged">>,
                                       <<"insertOne">>)
          [] outcome = "throws" ->
               /\ store' = store
               /\ res' = CreateFailure(o.arg, StoreError, <<"insertOne">>)
  /\ ops' = Remove(ops, i)
  /\ UNCHANGED <<engine, nextId, connection, callers>>

\* --------------------------------------------------------------- findById
\* lines 141-144: validate the identifier inside the try, call findOne
FindByIdCallThrows(id) ==
  /\ Idle
  /\ LET validatedId == ValidateId(engine.useObjectId, id)
     IN IF validatedId.threw
          THEN /\ res' = [FindFailure(id, validatedId.error, <<>>) EXCEPT !.threw = TRUE]
               /\ ops' = ops
          ELSE /\ ops' = Append(ops, [op |-> "findById", pc |-> "findOne",
                                      arg |-> id, id |-> validatedId.value])
               /\ res' = NoResult
  /\ UNCHANGED <<engine, store, nextId, connection, callers>>
FindByIdCall(id) ==
  /\ Idle
  /\ LET validatedId == ValidateId(engine.useObjectId, id)
     IN IF validatedId.threw
          THEN /\ res' = FindFailure(id, validatedId.error, <<>>)
               /\ ops' = ops
          ELSE /\ ops' = Append(ops, [op |-> "findById", pc |-> "findOne",
                                      arg |-> id, id |-> validatedId.value])
               /\ res' = NoResult
  /\ UNCHANGED <<engine, store, nextId, connection, callers>>

\* lines 146-162: the findOne promise settles
FoundNotFoundSucceeds(o, found) ==
  IF found # <<>>
    THEN FindSuccess(o.arg, found[1], <<"findOne">>)
    ELSE [FindFailure(o.arg, <<>>, <<"findOne">>) EXCEPT !.success = TRUE]
Found(o, found) ==
  IF found # <<>>
    THEN FindSuccess(o.arg, found[1], <<"findOne">>)
    ELSE FindFailure(o.arg, <<"Document with id ", o.arg, " not found">>, <<"findOne">>)

FindOneReturns(i, outcome) ==
  /\ exitCode = Running
  /\ ops[i].op = "findById" /\ ops[i].pc = "findOne"
  /\ outcome \in ReadOutcomes
  /\ res' = IF outcome = "ok"
              THEN Found(ops[i], FindOne(ops[i].id))
              ELSE FindFailure(ops[i].arg, StoreError, <<"findOne">>)
  /\ ops' = Remove(ops, i)
  /\ UNCHANGED <<engine, store, nextId, connection, callers>>

\* --------------------------------------------------------------- findMany
\* an option the caller may leave out
Given(n) == [given |-> TRUE, value |-> n]

NotGiven == [given |-> FALSE, value |-> 0]

\* line 167: const { limit = 100, skip = 0 } = options
Limit(options) == IF options.limit.given THEN options.limit.value ELSE DefaultLimit

Skip(options) == IF options.skip.given THEN options.skip.value ELSE 0

\* lines 165-179: build the cursor, call toArray
FindManyCall(filter, options) ==
  /\ Idle
  /\ ops' = Append(ops, [op |-> "findMany", pc |-> "toArray",
                         arg |-> [filter |-> filter, options |-> options],
                         documents |-> <<>>])
  /\ res' = NoResult
  /\ UNCHANGED <<engine, store, nextId, connection, callers>>

\* line 179: the toArray promise settles; countDocuments is called
ToArrayReturns(i, outcome) ==
  /\ exitCode = Running
  /\ ops[i].op = "findMany" /\ ops[i].pc = "toArray"
  /\ outcome \in ReadOutcomes
  /\ LET o == ops[i]
     IN IF outcome = "ok"
          THEN /\ ops' = [ops EXCEPT ![i].pc = "countDocuments",
                                     ![i].documents =
                                       Page(Find(o.arg.filter), Limit(o.arg.options),
                                            Skip(o.arg.options))]
               /\ res' = NoResult
          ELSE /\ ops' = Remove(ops, i)
               /\ res' = FindManyFailure(o.arg, StoreError, <<"toArray">>)
  /\ UNCHANGED <<engine, store, nextId, connection, callers>>

\* lines 180-194: the countDocuments promise settles
CountDocumentsReturnsKeepsPage(i, outcome) ==
  /\ exitCode = Running
  /\ ops[i].op = "findMany" /\ ops[i].pc = "countDocuments"
  /\ outcome \in ReadOutcomes
  /\ LET o == ops[i]
     IN res' = IF outcome = "ok"
                 THEN FindManySuccess(o.arg, o.documents, CountDocuments(o.arg.filter),
                                      <<"toArray", "countDocuments">>)
                 ELSE [FindManyFailure(o.arg, StoreError, <<"toArray", "countDocuments">>)
                         EXCEPT !.data = o.documents]
  /\ ops' = Remove(ops, i)
  /\ UNCHANGED <<engine, store, nextId, connection, callers>>
CountDocumentsReturns(i, outcome) ==
  /\ exitCode = Running
  /\ ops[i].op = "findMany" /\ ops[i].pc = "countDocuments"
  /\ outcome \in ReadOutcomes
  /\ LET o == ops[i]
     IN res' = IF outcome = "ok"
                 THEN FindManySuccess(o.arg, o.documents, CountDocuments(o.arg.filter),
                                      <<"toArray", "countDocuments">>)
                 ELSE FindManyFailure(o.arg, StoreError, <<"toArray", "countDocuments">>)
  /\ ops' = Remove(ops, i)
  /\ UNCHANGED <<engine, store, nextId, connection, callers>>

\* ------------------------------------------------------------- updateById
\* lines 197-221: validate the identifier and the $set payload inside the
\* try, call updateOne; only the $set section of an update is validated
UpdateByIdCall(id, update) ==
  /\ Idle
  /\ LET validatedId == ValidateId(engine.useObjectId, id)
         checked == IF update.hasSet
                      THEN ValidateSet(engine.declaresId, update.set)
                      ELSE Return(update.set)
         arg == [id |-> id, update |-> update]
     IN IF validatedId.threw
          THEN /\ res' = UpdateFailure(arg, validatedId.error, <<>>)
               /\ ops' = ops
          ELSE IF checked.threw
                 THEN /\ res' = UpdateFailure(arg, checked.error, <<>>)
                      /\ ops' = ops
                 ELSE /\ ops' = Append(ops, [op |-> "updateById", pc |-> "updateOne",
                                             arg |-> arg, id |-> validatedId.value,
                                             modifiedCount |-> 0, after |-> <<>>])
                      /\ res' = NoResult
  /\ UNCHANGED <<engine, store, nextId, connection, callers>>

\* lines 218-236: the updateOne promise settles; when acknowledged the
\* document is fetched again.  `after` notes the target as this updateOne
\* left it, for comparison with what the re-fetch returns.
UpdateOneReturnsRefetchesAlways(i, outcome, applied) ==
  /\ exitCode = Running
  /\ ops[i].op = "updateById" /\ ops[i].pc = "updateOne"
  /\ outcome \in WriteOutcomes
  /\ outcome # "unacknowledged" => applied
  /\ LET o == ops[i]
         update == o.arg.update
     IN CASE outcome \in {"ok", "unacknowledged"} ->
               /\ store' = IF applied THEN UpdateOne(o.id, update) ELSE store
               /\ ops' = [ops EXCEPT ![i].pc = "findOne",
                                     ![i].modifiedCount = ModifiedCount(o.id, update),
                                     ![i].after = SelectSeq(UpdateOne(o.id, update),
                                                          LAMBDA d : d._id = o.id)]
               /\ res' = NoResult
          [] outcome = "throws" ->
               /\ store' = store
               /\ ops' = Remove(ops, i)
               /\ res' = UpdateFailure(o.arg, StoreError, <<"updateOne">>)
  /\ UNCHANGED <<engine, nextId, connection, callers>>
UpdateOneReturns(i, outcome, applied) ==
  /\ exitCode = Running
  /\ ops[i].op = "updateById" /\ ops[i].pc = "updateOne"
  /\ outcome \in WriteOutcomes
  /\ outcome # "unacknowledged" => applied
  /\ LET o == ops[i]
         update == o.arg.update
     IN CASE outcome = "ok" ->
               /\ store' = UpdateOne(o.id, update)
               /\ ops' = [ops EXCEPT ![i].pc = "findOne",
                                     ![i].modifiedCount = ModifiedCount(o.id, update),
                                     ![i].after = SelectSeq(UpdateOne(o.id, update),
                                                          LAMBDA d : d._id = o.id)]
               /\ res' = NoResult
          [] outcome = "unacknowledged" ->
               /\ store' = IF applied THEN UpdateOne(o.id, update) ELSE store
               /\ ops' = Remove(ops, i)
               /\ res' = UpdateFailure(o.arg, <<"Update operation was not acknowledged">>,
                                       <<"updateOne">>)
          [] outcome = "throws" ->
               /\ store' = store
               /\ ops' = Remove(ops, i)
               /\ res' = UpdateFailure(o.arg, StoreError, <<"updateOne">>)
  /\ UNCHANGED <<engine, nextId, connection, callers>>

\* lines 224-231: the findOne promise of the re-fetch settles
RefetchReturns(i, outcome) ==
  /\ exitCode = Running
  /\ ops[i].op = "updateById" /\ ops[i].pc = "findOne"
  /\ outcome \in ReadOutcomes
  /\ LET o == ops[i]
     IN res' = IF outcome = "ok"
                 THEN UpdateSuccess(o.arg, FindOne(o.id), o.modifiedCount,
                                    <<"updateOne", "findOne">>)
                 ELSE UpdateFailure(o.arg, StoreError, <<"updateOne", "findOne">>)
  /\ ops' = Remove(ops, i)
  /\ UNCHANGED <<engine, store, nextId, connection, callers>>

\* --------------------------------------------------------------- deleteById
\* lines 244-247: validate the identifier inside the try, call deleteOne
DeleteByIdCall(id) ==
  /\ Idle
  /\ LET validatedId == ValidateId(engine.useObjectId, id)
     IN IF validatedId.threw
          THEN /\ res' = DeleteFailure("deleteById", id, validatedId.error, <<>>)
               /\ ops' = ops
          ELSE /\ ops' = Append(ops, [op |-> "deleteById", pc |-> "deleteOne",
                                      arg |-> id, id |-> validatedId.value])
               /\ res' = NoResult
  /\ UNCHANGED <<engine, store, nextId, connection, callers>>

\* lines 247-267: the deleteOne promise settles
DeleteOneReturns(i, outcome, applied) ==
  /\ exitCode = Running
  /\ ops[i].op = "deleteById" /\ ops[i].pc = "deleteOne"
  /\ outcome \in WriteOutcomes
  /\ outcome # "unacknowledged" => applied
  /\ LET o == ops[i]
     IN CASE outcome = "ok" ->
               /\ store' = DeleteOne(o.id)
               /\ res' = DeleteSuccess("deleteById", o.arg,
                                       Len(store) - Len(DeleteOne(o.id)), <<"deleteOne">>)
          [] outcome = "unacknowledged" ->
               /\ store' = IF applied THEN DeleteOne(o.id) ELSE store
               /\ res' = DeleteFailure("deleteById", o.arg,
                                       <<"Delete operation was not acknowledged">>,
                                       <<"deleteOne">>)
          [] outcome = "throws" ->
               /\ store' = store
               /\ res' = DeleteFailure("deleteById", o.arg, StoreError, <<"deleteOne">>)
  /\ ops' = Remove(ops, i)
  /\ UNCHANGED <<engine, nextId, connection, callers>>

\* --------------------------------------------------------------- deleteMany
\* lines 270-272: call deleteMany with the filter as given
DeleteManyCall(filter) ==
  /\ Idle
  /\ ops' = Append(ops, [op |-> "deleteMany", pc |-> "deleteMany", arg |-> filter])
  /\ res' = NoResult
  /\ UNCHANGED <<engine, store, nextId, connection, callers>>

\* lines 272-292: the deleteMany promise settles
DeleteManyReturns(i, outcome, applied) ==
  /\ exitCode = Running
  /\ ops[i].op = "deleteMany" /\ ops[i].pc = "deleteMany"
  /\ outcome \in WriteOutcomes
  /\ outcome # "unacknowledged" => applied
  /\ LET o == ops[i]
     IN CASE outcome = "ok" ->
               /\ store' = DeleteMany(o.arg)
               /\ res' = DeleteSuccess("deleteMany", o.arg,
                                       Len(store) - Len(DeleteMany(o.arg)), <<"deleteMany">>)
          [] outcome = "unacknowledged" ->
               /\ store' = IF applied THEN DeleteMany(o.arg) ELSE store
               /\ res' = DeleteFailure("deleteMany", o.arg,
                                       <<"Delete operation was not acknowledged">>,
                                       <<"deleteMany">>)
          [] outcome = "throws" ->
               /\ store' = store
               /\ res' = DeleteFailure("deleteMany", o.arg, StoreError, <<"deleteMany">>)
  /\ ops' = Remove(ops, i)
  /\ UNCHANGED <<engine, nextId, connection, callers>>

\* ------------------------------------------------------------------ exists
\* lines 295-298: validate the identifier inside the try, count by _id; the
\* catch answers false
ExistsCallRethrows(id) ==
  /\ Idle
  /\ LET validatedId == ValidateId(engine.useObjectId, id)
     IN IF validatedId.threw
          THEN /\ res' = [Answer("exists", id, FALSE, <<>>) EXCEPT !.threw = TRUE]
               /\ ops' = ops
          ELSE /\ ops' = Append(ops, [op |-> "exists", pc |-> "countDocuments",
                                      arg |-> id, id |-> validatedId.value])
               /\ res' = NoResult
  /\ UNCHANGED <<engine, store, nextId, connection, callers>>
ExistsCall(id) ==
  /\ Idle
  /\ LET validatedId == ValidateId(engine.useObjectId, id)
     IN IF validatedId.threw
          THEN /\ res' = Answer("exists", id, FALSE, <<>>)
               /\ ops' = ops
          ELSE /\ ops' = Append(ops, [op |-> "exists", pc |-> "countDocuments",
                                      arg |-> id, id |-> validatedId.value])
               /\ res' = NoResult
  /\ UNCHANGED <<engine, store, nextId, connection, callers>>

\* lines 298-303: the countDocuments promise settles
ExistsReturnsRethrows(i, outcome) ==
  /\ exitCode = Running
  /\ ops[i].op = "exists" /\ ops[i].pc = "countDocuments"
  /\ outcome \in ReadOutcomes
  /\ res' = IF outcome = "ok"
              THEN Answer("exists", ops[i].arg, Len(FindOne(ops[i].id)) > 0,
                          <<"countDocuments">>)
              ELSE [Answer("exists", ops[i].arg, FALSE, <<"countDocuments">>)
                      EXCEPT !.threw = TRUE]
  /\ ops' = Remove(ops, i)
  /\ UNCHANGED <<engine, store, nextId, connection, callers>>
ExistsReturns(i, outcome) ==
  /\ exitCode = Running
  /\ ops[i].op = "exists" /\ ops[i].pc = "countDocuments"
  /\ outcome \in ReadOutcomes
  /\ res' = IF outcome = "ok"
              THEN Answer("exists", ops[i].arg, Len(FindOne(ops[i].id)) > 0,
                          <<"countDocuments">>)
              ELSE Answer("exists", ops[i].arg, FALSE, <<"countDocuments">>)
  /\ ops' = Remove(ops, i)
  /\ UNCHANGED <<engine, store, nextId, connection, callers>>

\* ------------------------------------------------------------------- count
\* lines 306-308: call countDocuments with the filter
CountCall(filter) ==
  /\ Idle
  /\ ops' = Append(ops, [op |-> "count", pc |-> "countDocuments", arg |-> filter])
  /\ res' = NoResult
  /\ UNCHANGED <<engine, store, nextId, connection, callers>>

\* lines 308-312: the countDocuments promise settles; the catch answers 0
CountReturns(i, outcome) ==
  /\ exitCode = Running
  /\ ops[i].op = "count" /\ ops[i].pc = "countDocuments"
  /\ outcome \in ReadOutcomes
  /\ res' = IF outcome = "ok"
              THEN Answer("count", ops[i].arg, CountDocuments(ops[i].arg),
                          <<"countDocuments">>)
              ELSE Answer("count", ops[i].arg, 0, <<"countDocuments">>)
  /\ ops' = Remove(ops, i)
  /\ UNCHANGED <<engine, store, nextId, connection, callers>>

\* ------------------------------------------------- the engine in service
\* the manager after its first connect() resolved
ConnectedOnce ==
  /\ client = 1
  /\ db = 1
  /\ isConnected = TRUE
  /\ isConnecting = FALSE
  /\ clients = <<"open">>
  /\ listeners = [s \in Signals |-> 1]
  /\ waiters = 0
  /\ attempts = {}
  /\ closing = <<>>
  /\ shutdowns = <<>>
  /\ probing = 0
  /\ exitCode = Running
  /\ out = Resolved("connect", "attempted", 1, FALSE)
  /\ burstBase = 0
  /\ burstHandles = {1}
  /\ burstFailures = 0
  /\ burstClean = TRUE

\* what the caller passes to create(): valid, invalid and missing keys, with
\* or without an _id of its own
DataInputs ==
  [_id : {NoId, Junk}, name : Valid \cup {Invalid, Absent}, age : {"a", Invalid}]

\* identifiers the caller asks for: that of the first document in each
\* representation, and a malformed string
IdInputs == {OID(1), Hex(1), Uuid(1), Junk}

\* update payloads: a $set section, an $unset section, or both on
\* different keys
UpdateInputs ==
  {u \in [hasSet : BOOLEAN, set : [name : {"b", Invalid, Absent},
                                  age : {Invalid, Absent}],
          unset : {{}, {"name"}}] :
     /\ u.hasSet \/ u.unset # {}
     /\ ~u.hasSet => u.set = [name |-> Absent, age |-> Absent]
     /\ u.unset # {} => u.set.name = Absent}

FilterInputs == {NoFilter, [field |-> "name", value |-> "a"]}

OptionInputs ==
  [limit : {NotGiven, Given(-1), Given(0), Given(2)},
   skip : {NotGiven, Given(-1), Given(1)}]

InitCrud ==
  /\ ConnectedOnce
  /\ engine = NoEngine
  /\ store = <<>>
  /\ nextId = 0
  /\ ops = <<>>
  /\ res = NoResult
  /\ callers = 1

NextCrud ==
  \/ \E useObjectId \in BOOLEAN, declaresId \in BOOLEAN :
       Construct(useObjectId, declaresId)
  \/ \E data \in DataInputs : CreateCall(data)
  \/ \E i \in 1..Len(ops), outcome \in {"ok", "unacknowledged", "throws"},
        applied \in BOOLEAN : InsertOneReturns(i, outcome, applied)
  \/ \E id \in IdInputs : FindByIdCall(id)
  \/ \E i \in 1..Len(ops), outcome \in {"ok", "throws"} : FindOneReturns(i, outcome)
  \/ \E filter \in FilterInputs, options \in OptionInputs :
       FindManyCall(filter, options)
  \/ \E i \in 1..Len(ops), outcome \in {"ok", "throws"} : ToArrayReturns(i, outcome)
  \/ \E i \in 1..Len(ops), outcome \in {"ok", "throws"} :
       CountDocumentsReturns(i, outcome)
  \/ \E id \in IdInputs, update \in UpdateInputs : UpdateByIdCall(id, update)
  \/ \E i \in 1..Len(ops), outcome \in {"ok", "unacknowledged", "throws"},
        applied \in BOOLEAN : UpdateOneReturns(i, outcome, applied)
  \/ \E i \in 1..Len(ops), outcome \in {"ok", "throws"} : RefetchReturns(i, outcome)
  \/ \E id \in IdInputs : DeleteByIdCall(id)
  \/ \E i \in 1..Len(ops), outcome \in {"ok", "unacknowledged", "throws"},
        applied \in BOOLEAN : DeleteOneReturns(i, outcome, applied)
  \/ \E filter \in FilterInputs : DeleteManyCall(filter)
  \/ \E i \in 1..Len(ops), outcome \in {"ok", "unacknowledged", "throws"},
        applied \in BOOLEAN : DeleteManyReturns(i, outcome, applied)
  \/ \E id \in IdInputs : ExistsCall(id)
  \/ \E i \in 1..Len(ops), outcome \in {"ok", "throws"} : ExistsReturns(i, outcome)
  \/ \E filter \in FilterInputs : CountCall(filter)
  \/ \E i \in 1..Len(ops), outcome \in {"ok", "throws"} : CountReturns(i, outcome)

SpecCrud == InitCrud /\ [][NextCrud]_vars

\* ------------------------------------------- callers racing on one record
\* part_001 574-590: callers that do not await each other before they call
MaxRacers == 2

\* the record the racers work on, as create() stored it
FirstRecord(useObjectId) ==
  [_id |-> GenerateId(useObjectId, 1), name |-> "a", age |-> "a"]

\* the canonical string of the first identifier in either mode
RaceIds == {Hex(1), Uuid(1)}

\* one payload that sets name, one that unsets it
RaceUpdates ==
  {[hasSet |-> TRUE, set |-> [name |-> "b", age |-> Absent], unset |-> {}],
   [hasSet |-> FALSE, set |-> [name |-> Absent, age |-> Absent], unset |-> {"name"}]}

\* a connected manager, a constructed engine, one record created
InitRace ==
  /\ ConnectedOnce
  /\ \E useObjectId \in BOOLEAN :
       /\ engine = [built |-> TRUE, handle |-> 1, useObjectId |-> useObjectId,
                    declaresId |-> FALSE]
       /\ store = <<FirstRecord(useObjectId)>>
  /\ nextId = 1
  /\ ops = <<>>
  /\ res = NoResult
  /\ callers = MaxRacers

NextRace ==
  \/ \E id \in RaceIds, update \in RaceUpdates : UpdateByIdCall(id, update)
  \/ \E i \in 1..Len(ops), outcome \in {"ok", "unacknowledged", "throws"},
        applied \in BOOLEAN : UpdateOneReturns(i, outcome, applied)
  \/ \E i \in 1..Len(ops), outcome \in {"ok", "throws"} : RefetchReturns(i, outcome)
  \/ \E id \in RaceIds : DeleteByIdCall(id)
  \/ \E i \in 1..Len(ops), outcome \in {"ok", "unacknowledged", "throws"},
        applied \in BOOLEAN : DeleteOneReturns(i, outcome, applied)

SpecRace == InitRace /\ [][NextRace]_vars

\* one record as a caller passes it to create()
RaceData == [_id |-> NoId, name |-> "b", age |-> "a"]

\* ------------------------------------- callers racing on one collection
\* findMany() as called without options
NoOptions == [limit |-> NotGiven, skip |-> NotGiven]

\* a connected manager, a constructed engine, an empty collection
InitCrowd ==
  /\ ConnectedOnce
  /\ \E useObjectId \in BOOLEAN :
       engine = [built |-> TRUE, handle |-> 1, useObjectId |-> useObjectId,
                 declaresId |-> FALSE]
  /\ store = <<>>
  /\ nextId = 0
  /\ ops = <<>>
  /\ res = NoResult
  /\ callers = MaxRacers

\* callers that create, list and delete without awaiting each other
NextCrowd ==
  \/ CreateCall(RaceData)
  \/ \E i \in 1..Len(ops), outcome \in {"ok", "unacknowledged", "throws"},
        applied \in BOOLEAN : InsertOneReturns(i, outcome, applied)
  \/ FindManyCall(NoFilter, NoOptions)
  \/ \E i \in 1..Len(ops), outcome \in {"ok", "throws"} : ToArrayReturns(i, outcome)
  \/ \E i \in 1..Len(ops), outcome \in {"ok", "throws"} :
       CountDocumentsReturns(i, outcome)
  \/ \E id \in RaceIds : DeleteByIdCall(id)
  \/ \E i \in 1..Len(ops), outcome \in {"ok", "unacknowledged", "throws"},
        applied \in BOOLEAN : DeleteOneReturns(i, outcome, applied)

SpecCrowd == InitCrowd /\ [][NextCrowd]_vars

\* ------------------------------------ the engine while the manager closes

\* a connected manager, a constructed engine, one record created, one
\* caller that awaits each operation
InitClose ==
  /\ ConnectedOnce
  /\ \E useObjectId \in BOOLEAN :
       /\ engine = [built |-> TRUE, handle |-> 1, useObjectId |-> useObjectId,
                    declaresId |-> FALSE]
       /\ store = <<FirstRecord(useObjectId)>>
  /\ nextId = 1
  /\ ops = <<>>
  /\ res = NoResult
  /\ callers = 1

\* disconnect() callers and termination signals next to the engine's caller
NextClose ==
  \/ DisconnectCall
  \/ \E i \in 1..MaxDisconnects : DisconnectResolved(i)
  \/ \E i \in 1..MaxDisconnects : DisconnectRejected(i)
  \/ \E s \in Signals : Signal(s)
  \/ \E i \in 1..MaxShutdowns : ShutdownResolved(i)
  \/ \E i \in 1..MaxShutdowns : ShutdownRejected(i)
  \/ CreateCall(RaceData)
  \/ \E i \in 1..Len(ops), outcome \in {"ok", "unacknowledged", "throws"},
        applied \in BOOLEAN : InsertOneReturns(i, outcome, applied)
  \/ \E id \in RaceIds : FindByIdCall(id)
  \/ \E i \in 1..Len(ops), outcome \in {"ok", "throws"} : FindOneReturns(i, outcome)
  \/ FindManyCall(NoFilter, NoOptions)
  \/ \E i \in 1..Len(ops), outcome \in {"ok", "throws"} : ToArrayReturns(i, outcome)
  \/ \E i \in 1..Len(ops), outcome \in {"ok", "throws"} :
       CountDocumentsReturns(i, outcome)
  \/ \E id \in RaceIds, update \in RaceUpdates : UpdateByIdCall(id, update)
  \/ \E i \in 1..Len(ops), outcome \in {"ok", "unacknowledged", "throws"},
        applied \in BOOLEAN : UpdateOneReturns(i, outcome, applied)
  \/ \E i \in 1..Len(ops), outcome \in {"ok", "throws"} : RefetchReturns(i, outcome)
  \/ \E id \in RaceIds : DeleteByIdCall(id)
  \/ \E i \in 1..Len(ops), outcome \in {"ok", "unacknowledged", "throws"},
        applied \in BOOLEAN : DeleteOneReturns(i, outcome, applied)
  \/ DeleteManyCall(NoFilter)
  \/ \E i \in 1..Len(ops), outcome \in {"ok", "unacknowledged", "throws"},
        applied \in BOOLEAN : DeleteManyReturns(i, outcome, applied)
  \/ \E id \in RaceIds : ExistsCall(id)
  \/ \E i \in 1..Len(ops), outcome \in {"ok", "throws"} : ExistsReturns(i, outcome)
  \/ CountCall(NoFilter)
  \/ \E i \in 1..Len(ops), outcome \in {"ok", "throws"} : CountReturns(i, outcome)

SpecClose == InitClose /\ [][NextClose]_vars

\* ------------------------------------- the engine over a manager's life
\* connect() and disconnect() callers next to a caller that constructs the
\* engine and looks documents up
NextLife ==
  \/ ConnectCall
  \/ WaiterWake
  \/ \E a \in AttemptSlots : AttemptResolved(a)
  \/ \E a \in AttemptSlots : AttemptRejected(a)
  \/ DisconnectCall
  \/ \E i \in 1..MaxDisconnects : DisconnectResolved(i)
  \/ \E useObjectId \in BOOLEAN, declaresId \in BOOLEAN :
       Construct(useObjectId, declaresId)
  \/ \E id \in IdInputs : FindByIdCall(id)
  \/ \E i \in 1..Len(ops), outcome \in {"ok", "throws"} : FindOneReturns(i, outcome)

SpecLife == Init /\ [][NextLife]_vars

\* ================================================================ claims
\* the manager states of section 4.1
Disconnected == ~isConnected /\ ~isConnecting

\* client.connect() calls issued since the current burst began
BurstAttempts == Len(clients) - burstBase

C3_ShutdownAtMostOnce == Len(shutdowns) <= 1

\* C4 (as stated): no termination signal ever has more than one shutdown
\* listener, and each has exactly one while the manager is Connected.
C4_HandlersRegisteredOnce ==
  \A s \in Signals :
    /\ listeners[s] <= 1
    /\ isConnected => listeners[s] = 1

\* C5: the process exits with code 0 only from a shutdown closure whose
\* disconnect() has completed (its client is closed), with code 1 only from
\* one whose disconnect() failed, and never from a closure whose disconnect()
\* is still pending.
C5_ExitAfterDisconnect ==
  /\ \A i \in 1..Len(shutdowns) :
       /\ shutdowns[i].pc = "exit0" =>
            /\ shutdowns[i].disc = "done"
            /\ shutdowns[i].target # 0 => clients[shutdowns[i].target] = "closed"
       /\ shutdowns[i].pc = "exit1" => shutdowns[i].disc = "failed"
  /\ exitCode = "0" <=> \E i \in 1..Len(shutdowns) : shutdowns[i].pc = "exit0"
  /\ exitCode = "1" <=> \E i \in 1..Len(shutdowns) : shutdowns[i].pc = "exit1"

\* a second signal arrived during the first shutdown's close, and the
\* process exited 0 after the client was closed
C5_Witness ==
  /\ exitCode = "0"
  /\ Len(shutdowns) = 2
  /\ \E i \in 1..2 : shutdowns[i].pc = "exit0" /\ shutdowns[i].target # 0
  /\ \E i \in 1..2 : shutdowns[i].pc = "awaiting" /\ shutdowns[i].disc = "pending"

\* C6: a connect() call made while the manager is Connected returns the
\* existing handle at once and changes nothing: no client is created, no
\* attempt is issued, no listener is added.
C6_ConnectIdempotent ==
  [][ConnectCall /\ isConnected =>
       /\ db # 0
       /\ out' = Resolved("connect", "early", db, FALSE)
       /\ UNCHANGED <<manager, clients, listeners, waiters, attempts>>]_vars

\* a call on a Connected manager has just returned the established handle
C6_Witness ==
  /\ isConnected
  /\ db # 0
  /\ out = Resolved("connect", "early", db, FALSE)

\* C7: a connect() call whose attempt fails leaves the manager Disconnected
\* (neither connecting nor connected, getDb() throws, isConnectionActive()
\* false) and throws the connection error wrapping the underlying cause.
C7_FailedConnectDisconnected ==
  out.op = "connect" /\ out.threw =>
    /\ Disconnected
    /\ GetDb = Throw(NotConnected)
    /\ ~IsConnectionActive
    /\ out.error \in {ConnectError("MongoServerSelectionError"),
                      ConnectError("TypeError")}
    /\ out.error = ConnectError("TypeError") => client = 0

\* the driver rejected the attempt and the caller got the wrapped error
C7_Witness ==
  /\ out = Rejected("connect", "attempted", ConnectError("MongoServerSelectionError"))
  /\ clients = <<"failed">>
  /\ Disconnected

C9_AccessorsFollowState ==
  /\ ~GetDb.threw <=> isConnected
  /\ ~GetClient.threw <=> isConnected
  /\ isConnected => /\ GetDb = Return(db) /\ db # 0
                    /\ GetClient = Return(client) /\ client # 0
  /\ isConnecting \/ Disconnected =>
       GetDb = Throw(NotConnected) /\ GetClient = Throw(NotConnected)
  /\ IsConnectionActive <=> (isConnected /\ db # 0)

\* Connected again, on a second client, after a completed disconnect
C9_Witness ==
  /\ isConnected
  /\ clients = <<"closed", "open">>
  /\ GetDb = Return(2)
  /\ IsConnectionActive

\* C10: ping() never throws; it answers false without probing when the
\* manager is not Connected, false when the probe fails, and true only when
\* it was Connected and the probe succeeded.
C10_PingNeverThrows ==
  /\ [](out.op = "ping" =>
          /\ ~out.threw
          /\ out.answer <=> out.path = "probe ok")
  /\ [][PingCall =>
          IF isConnected
            THEN probing' = probing + 1 /\ out' = NoOutcome
            ELSE probing' = probing
                 /\ out' = Resolved("ping", "not connected", 0, FALSE)]_vars

\* a probe on a Connected manager failed and ping() answered false
C10_Witness == out = Resolved("ping", "probe failed", 0, FALSE)

\* ---------------------------------------------------------------- C11
\* clients the manager created and that were not closed since
Live == {n \in 1..Len(clients) : clients[n] # "closed"}

\* C11: at every point of every interleaving of connect(), disconnect() and
\* shutdown, at most one client the manager created is live (created and
\* not yet closed).
C11_AtMostOneLiveClient == Cardinality(Live) <= 1

\* ---------------------------------------------------------------- C12
\* C12: constructing the engine on a manager that is not Connected throws
\* the not-connected error and builds nothing, constructing it on a
\* Connected manager takes the manager's handle, and nothing else the
\* engine does throws, whatever the state of the manager.
C12_OnlyConstructionThrows ==
  /\ [][\A useObjectId \in BOOLEAN, declaresId \in BOOLEAN :
          Construct(useObjectId, declaresId) =>
            IF isConnected /\ db # 0
              THEN /\ ~res'.threw
                   /\ engine'.built /\ engine'.handle = db
              ELSE /\ res'.op = "construct" /\ res'.threw
                   /\ res'.error = NotConnected
                   /\ engine' = NoEngine]_vars
  /\ [](res.threw => res.op = "construct" /\ res.error = NotConnected)
  /\ [][\A id \in IdInputs : FindByIdCall(id) => ~res'.threw]_vars
  /\ [][\A i \in 1..Len(ops) : FindOneReturns(i, "throws") =>
          res'.op = "findById" /\ ~res'.threw /\ ~res'.success]_vars

\* construction was attempted while a connect() was in flight, after a
\* disconnect() had closed the first client, and threw
C12_Witness ==
  /\ res.op = "construct" /\ res.threw
  /\ ~engine.built
  /\ isConnecting
  /\ clients = <<"closed", "connecting">>

\* ------------------------------------------------------- engine claims
\* the input has every declared key with a value the schema accepts
SatisfiesShape(declaresId, data) ==
  /\ \A k \in 1..Len(Fields) : data[Fields[k]] \in Valid
  /\ declaresId => data._id # NoId

\* the declared keys the input gets wrong
ViolatedKeys(declaresId, data) ==
  {Fields[k] : k \in {j \in 1..Len(Fields) : data[Fields[j]] \notin Valid}}
    \cup (IF declaresId /\ data._id = NoId THEN {"_id"} ELSE {})

C14_InvalidCreateTouchesNothing ==
  /\ [](\A i \in 1..Len(ops) :
          ops[i].op = "create" => SatisfiesShape(engine.declaresId, ops[i].arg))
  /\ [](res.op = "create" /\ ~SatisfiesShape(engine.declaresId, res.arg) =>
          /\ ~res.success /\ ~res.threw
          /\ res.calls = <<>>
          /\ res.data = <<>> /\ res.id = NoId
          /\ res.error[1] = "Validation failed: "
          /\ {res.error[2][k][1] : k \in 1..Len(res.error[2])}
               = ViolatedKeys(engine.declaresId, res.arg))
  /\ [][res'.op = "create" /\ ~SatisfiesShape(engine.declaresId, res'.arg) =>
          store' = store /\ ops' = ops /\ nextId' = nextId]_vars

\* an input wrong in three keys was refused with three issues
C14_Witness ==
  /\ res.op = "create" /\ ~res.success
  /\ res.calls = <<>>
  /\ Len(res.error) = 2 /\ Len(res.error[2]) = 3
  /\ Len(store) = 1

\* no document of the store has this _id
AbsentId(id) == \A k \in 1..Len(store) : store[k]._id # id

\* C15: round trip.  What create() returned under id i is what the store
\* holds under i; a stored record changes or goes only when a write that
\* names its id (or a deleteMany) is applied; and findById(i), i an identifier as create() returns
\* them, returns Success with exactly the record the store holds under i.
C15_RoundTrip ==
  /\ [][\A i \in 1..Len(ops) : InsertOneReturns(i, "ok", TRUE) =>
          (FindOne(res.id) = res.data)']_vars
  /\ [][\A k \in 1..Len(store) :
          \/ \E j \in 1..Len(store') : store'[j] = store[k]
          \/ \E i \in 1..Len(ops) :
               \/ /\ ops[i].op = "updateById" /\ ops[i].pc = "updateOne"
                  /\ ops[i].id = store[k]._id
               \/ /\ ops[i].op = "deleteById" /\ ops[i].id = store[k]._id
               \/ ops[i].op = "deleteMany"]_vars
  /\ [][\A i \in 1..Len(ops) :
          /\ FindOneReturns(i, "ok")
          /\ ops[i].arg = GenerateId(engine.useObjectId, ops[i].arg.n)
          /\ ~AbsentId(ops[i].arg)
          => /\ res'.op = "findById" /\ res'.success
             /\ \E k \in 1..Len(store) :
                  /\ store[k]._id = ops[i].arg
                  /\ res'.data = <<store[k]>>
             /\ store' = store]_vars

\* the first record was read back by its id while the store held two
C15_Witness ==
  /\ res.op = "findById" /\ res.success
  /\ Len(store) = 2
  /\ res.data = <<store[1]>>
  /\ res.arg = store[1]._id

C17_NotFoundIsSuccess ==
  /\ [][\A i \in 1..Len(ops) :
          FindOneReturns(i, "ok") /\ AbsentId(ops[i].id) =>
            res'.success /\ res'.data = <<>>]_vars
  /\ [][\A i \in 1..Len(ops) :
          RefetchReturns(i, "ok") /\ AbsentId(ops[i].id) =>
            res'.success /\ res'.data = <<>> /\ res'.modifiedCount = 0]_vars

\* the documents of the store that satisfy the filter, counted one by one
Matching(filter) ==
  Cardinality({k \in 1..Len(store) :
                 filter.field = "none" \/ store[k][filter.field] = filter.value})

\* the length of a page of at most limit records taken after skip of m
\* records; a limit that is not positive is no limit
PageLength(m, limit, skip) ==
  LET rest == IF m - skip > 0 THEN m - skip ELSE 0
  IN IF limit > 0 /\ limit < rest THEN limit ELSE rest

\* C18 as stated: with M records matching the filter, findMany returns total
\* M and data of length min(limit, max(0, M - skip)) when limit > 0 and
\* max(0, M - skip) otherwise, limit defaulting to 100 and skip to 0.
C18_PageLengthBySkip ==
  res.op = "findMany" /\ res.success =>
    LET limit == IF res.arg.options.limit.given THEN res.arg.options.limit.value ELSE 100
        skip == IF res.arg.options.skip.given THEN res.arg.options.skip.value ELSE 0
    IN /\ res.total = Matching(res.arg.filter)
       /\ Len(res.data) = PageLength(Matching(res.arg.filter), limit, skip)

\* C18, amended: the same with a skip that is not positive counted as no
\* skip; the data are the matching records that follow the skipped ones, in
\* the order of the store.
C18_PageLengthByPositiveSkip ==
  res.op = "findMany" /\ res.success =>
    LET limit == IF res.arg.options.limit.given THEN res.arg.options.limit.value ELSE 100
        given == IF res.arg.options.skip.given THEN res.arg.options.skip.value ELSE 0
        skip == IF given > 0 THEN given ELSE 0
        all == SelectSeq(store, LAMBDA d : res.arg.filter.field = "none"
                                  \/ d[res.arg.filter.field] = res.arg.filter.value)
    IN /\ res.total = Matching(res.arg.filter)
       /\ Len(res.data) = PageLength(Matching(res.arg.filter), limit, skip)
       /\ \A k \in 1..Len(res.data) : res.data[k] = all[skip + k]
       /\ res.error = <<>> /\ ~res.threw

\* three records, limit 2, skip 1: two records and total 3
C18_Witness ==
  /\ res.op = "findMany" /\ res.success
  /\ Len(store) = 3
  /\ res.arg.filter = NoFilter
  /\ res.arg.options = [limit |-> Given(2), skip |-> Given(1)]
  /\ res.data = <<store[2], store[3]>>
  /\ res.total = 3

\* the $set section has a key with a value the schema refuses
ViolatesPartial(set) ==
  \E k \in 1..Len(Fields) : set[Fields[k]] \notin Valid \cup {Absent}

\* the identifier passes the engine's identifier check
WellFormed(id) == ~(engine.useObjectId /\ id.kind = "string" /\ id.form # "hex24")

\* C19 as stated: updateById whose $set section violates the partial shape
\* makes no store call, leaves the store unchanged and returns Failure with
\* modifiedCount 0 naming the update validation failure.
C19_InvalidSetNamesValidation ==
  res.op = "updateById" /\ res.arg.update.hasSet
    /\ ViolatesPartial(res.arg.update.set) =>
      /\ ~res.success
      /\ res.modifiedCount = 0
      /\ res.calls = <<>>
      /\ res.error[1] = "Update validation failed: "

\* C19, amended: such a call never reaches the store and returns Failure
\* with modifiedCount 0 and no data; when the id is well-formed the message
\* is the update validation failure and names every refused key, and when
\* it is not the message is that of the invalid id.
C19_InvalidSetTouchesNothing ==
  /\ [](\A i \in 1..Len(ops) :
          ops[i].op = "updateById" =>
            ~(ops[i].arg.update.hasSet /\ ViolatesPartial(ops[i].arg.update.set)))
  /\ [](res.op = "updateById" /\ res.arg.update.hasSet
          /\ ViolatesPartial(res.arg.update.set) =>
            /\ ~res.success /\ ~res.threw
            /\ res.modifiedCount = 0 /\ res.data = <<>>
            /\ res.calls = <<>>
            /\ IF WellFormed(res.arg.id)
                 THEN /\ res.error[1] = "Update validation failed: "
                      /\ {res.error[2][k][1] : k \in 1..Len(res.error[2])}
                           = {Fields[k] : k \in {j \in 1..Len(Fields) :
                                res.arg.update.set[Fields[j]] \notin Valid \cup {Absent}}}
                 ELSE res.error = <<"Invalid ObjectId: ", res.arg.id>>)
  /\ [][res'.op = "updateById" /\ res'.arg.update.hasSet
          /\ ViolatesPartial(res'.arg.update.set) =>
            store' = store /\ ops' = ops]_vars

\* an update of an existing record was refused for both of its keys
C19_Witness ==
  /\ res.op = "updateById" /\ ~res.success
  /\ res.calls = <<>>
  /\ Len(res.error) = 2 /\ res.error[1] = "Update validation failed: "
  /\ Len(res.error[2]) = 2
  /\ store # <<>> /\ store[1]._id = res.arg.id

\* C20: updateById on a well-formed id that matches no record, with a store
\* that acknowledges and answers the re-fetch, changes nothing in the store
\* and returns Success with modifiedCount 0 and no data.
C20_UpdateOfAbsentIdIsEmptySuccess ==
  /\ [][\A i \in 1..Len(ops) :
          UpdateOneReturns(i, "ok", TRUE) /\ AbsentId(ops[i].id) =>
            /\ store' = store
            /\ ops'[i].pc = "findOne"
            /\ ops'[i].modifiedCount = 0]_vars
  /\ [][\A i \in 1..Len(ops) :
          RefetchReturns(i, "ok") /\ AbsentId(ops[i].id) =>
            /\ res'.op = "updateById" /\ res'.success /\ ~res'.threw
            /\ res'.modifiedCount = 0
            /\ res'.data = <<>>
            /\ res'.error = <<>>
            /\ store' = store]_vars

\* a $set on an id nobody has, in a store that holds another record
C20_Witness ==
  /\ res.op = "updateById" /\ res.success
  /\ res.modifiedCount = 0 /\ res.data = <<>>
  /\ res.arg.update.hasSet /\ res.arg.update.set.name = "b"
  /\ store # <<>>
  /\ AbsentId(res.arg.id)
\* C21 (as stated): whenever updateById returns Success with a
\* modifiedCount of 1 or more, the data it returns is the target record as
\* this call's updateOne left it, whatever other updateById and deleteById
\* callers on the same id do in between.
C21_DataIsPostUpdateState ==
  [][\A i \in 1..Len(ops) :
       RefetchReturns(i, "ok") /\ ops[i].modifiedCount >= 1
       => res'.success /\ res'.data = ops[i].after]_vars

\* a string that native-id mode refuses
Malformed(id) == engine.useObjectId /\ id.kind = "string" /\ ~ObjectIdIsValid(id)

C23_MalformedFindIdIsFailure ==
  /\ [](res.op = "findById" /\ Malformed(res.arg)
         => /\ ~res.threw /\ ~res.success
            /\ res.error = <<"Invalid ObjectId: ", res.arg>>
            /\ res.data = <<>>
            /\ res.calls = <<>>)
  /\ [][res'.op = "findById" /\ Malformed(res'.arg)
        => ops' = ops /\ store' = store]_vars

\* a malformed id was looked up while the store held a record
C23_Witness ==
  /\ res.op = "findById" /\ Malformed(res.arg)
  /\ res.error = <<"Invalid ObjectId: ", Junk>>
  /\ store # <<>>

\* C24: deleteById on an id no record has, and deleteMany on a filter no
\* record matches, return Success with deletedCount 0 and leave the store
\* as it was; an acknowledged deleteById leaves its id absent, so repeating
\* it falls under the first case: same store, deletedCount 0.
C24_DeletingNothingIsSuccess ==
  /\ [][\A i \in 1..Len(ops) :
          DeleteOneReturns(i, "ok", TRUE) /\ AbsentId(ops[i].id)
          => /\ res'.success /\ res'.deletedCount = 0 /\ res'.error = <<>>
             /\ store' = store]_vars
  /\ [][\A i \in 1..Len(ops) :
          DeleteManyReturns(i, "ok", TRUE) /\ CountDocuments(ops[i].arg) = 0
          => /\ res'.success /\ res'.deletedCount = 0 /\ res'.error = <<>>
             /\ store' = store]_vars
  /\ [][\A i \in 1..Len(ops) :
          DeleteOneReturns(i, "ok", TRUE)
          => /\ \A k \in 1..Len(store') : store'[k]._id # ops[i].id
             /\ res'.deletedCount = Len(store) - Len(store')
             /\ res'.deletedCount <= 1]_vars

\* the first record's id was deleted again after it had gone, next to a
\* record that stayed
C24_Witness ==
  /\ res.op = "deleteById" /\ res.success /\ res.deletedCount = 0
  /\ ValidateId(engine.useObjectId, res.arg).value = GenerateId(engine.useObjectId, 1)
  /\ nextId >= 2 /\ store # <<>>

\* a Failure that says the one store call made was not acknowledged
NotAcknowledged(r, message, call) ==
  /\ r.op \in {"create", "updateById", "deleteById", "deleteMany"}
  /\ ~r.threw /\ ~r.success
  /\ r.error = <<message>>
  /\ r.calls = <<call>>

\* C25: when the store's answer to a write is not acknowledged, create,
\* updateById, deleteById and deleteMany return a Failure whose message
\* says so, with a zero count and without data or id; the operation ends
\* there, so updateById fetches nothing again.
C25_UnacknowledgedIsFailure ==
  [][\A i \in 1..Len(ops), applied \in BOOLEAN :
       /\ InsertOneReturns(i, "unacknowledged", applied)
          => /\ NotAcknowledged(res', "Insert operation was not acknowledged", "insertOne")
             /\ res'.data = <<>> /\ res'.id = NoId
             /\ ops' = Remove(ops, i)
       /\ UpdateOneReturns(i, "unacknowledged", applied)
          => /\ NotAcknowledged(res', "Update operation was not acknowledged", "updateOne")
             /\ res'.data = <<>> /\ res'.modifiedCount = 0
             /\ ops' = Remove(ops, i)
       /\ DeleteOneReturns(i, "unacknowledged", applied)
          => /\ NotAcknowledged(res', "Delete operation was not acknowledged", "deleteOne")
             /\ res'.deletedCount = 0
             /\ ops' = Remove(ops, i)
       /\ DeleteManyReturns(i, "unacknowledged", applied)
          => /\ NotAcknowledged(res', "Delete operation was not acknowledged", "deleteMany")
             /\ res'.deletedCount = 0
             /\ ops' = Remove(ops, i)]_vars

\* an update of a stored record was not acknowledged
C25_Witness ==
  /\ res.op = "updateById"
  /\ res.error = <<"Update operation was not acknowledged">>
  /\ ~AbsentId(ValidateId(engine.useObjectId, res.arg.id).value)
  /\ ops = <<>>

\* a store call of an envelope operation throws
StoreThrows(i) ==
  \/ InsertOneReturns(i, "throws", TRUE)
  \/ FindOneReturns(i, "throws")
  \/ ToArrayReturns(i, "throws")
  \/ CountDocumentsReturns(i, "throws")
  \/ UpdateOneReturns(i, "throws", TRUE)
  \/ RefetchReturns(i, "throws")
  \/ DeleteOneReturns(i, "throws", TRUE)
  \/ DeleteManyReturns(i, "throws", TRUE)

\* the count primitive under exists() or count() throws
AnswerThrows(i) == ExistsReturns(i, "throws") \/ CountReturns(i, "throws")

\* a Failure envelope with the given message
IsFailure(r, error) ==
  /\ "success" \in DOMAIN r
  /\ ~r.threw /\ ~r.success
  /\ r.error = error

\* no store primitive appears twice
NoRepeat(calls) ==
  \A j, k \in 1..Len(calls) : j # k => calls[j] # calls[k]

\* C26 (as stated): when a store call throws, each of the eight operations
\* returns, without raising, a Failure envelope with the message of the
\* error; the operation ends there and has called no primitive twice.
C26_StoreErrorIsFailureEnvelope ==
  [][\A i \in 1..Len(ops) :
       StoreThrows(i) \/ AnswerThrows(i)
       => /\ IsFailure(res', StoreError)
          /\ NoRepeat(res'.calls)
          /\ ops' = Remove(ops, i)
          /\ store' = store]_vars

\* C26 (amended): when a store call throws, no operation raises and none
\* calls a primitive twice; create, findById, findMany, updateById,
\* deleteById and deleteMany return a Failure envelope with the message of
\* the error, exists and count resolve to a bare false and 0 that carry no
\* message.
C26_StoreErrorIsCaught ==
  [][\A i \in 1..Len(ops) :
       /\ StoreThrows(i)
          => /\ IsFailure(res', StoreError)
             /\ NoRepeat(res'.calls)
             /\ ops' = Remove(ops, i)
             /\ store' = store
       /\ AnswerThrows(i)
          => /\ ~res'.threw
             /\ DOMAIN res' = {"op", "threw", "value", "arg", "calls"}
             /\ res'.value = IF res'.op = "exists" THEN FALSE ELSE 0
             /\ res'.calls = <<"countDocuments">>
             /\ ops' = Remove(ops, i)
             /\ store' = store]_vars

\* exists() answered false for a stored id: its countDocuments threw
C26_Witness ==
  /\ res.op = "exists" /\ res.value = FALSE
  /\ res.calls = <<"countDocuments">>
  /\ ~AbsentId(ValidateId(engine.useObjectId, res.arg).value)

\* C27: exists() and count() never throw: exists resolves to false and
\* count to 0 when countDocuments fails, and exists resolves to false
\* without any store call when native-id mode refuses the id; otherwise
\* they answer what the store holds.
C27_ExistsAndCountNeverThrow ==
  /\ [](res.op \in {"exists", "count"} => ~res.threw)
  /\ [](res.op = "exists" /\ Malformed(res.arg)
         => res.value = FALSE /\ res.calls = <<>>)
  /\ [][res'.op = "exists" /\ Malformed(res'.arg) => ops' = ops]_vars
  /\ [][\A i \in 1..Len(ops) :
          /\ ExistsReturns(i, "throws") => res'.value = FALSE
          /\ CountReturns(i, "throws") => res'.value = 0
          /\ ExistsReturns(i, "ok") => res'.value = ~AbsentId(ops[i].id)
          /\ CountReturns(i, "ok") => res'.value = Matching(ops[i].arg)]_vars

\* count() answered 0 over a store that holds records: its countDocuments
\* failed
C27_Witness ==
  /\ res.op = "count" /\ res.value = 0 /\ ~res.threw
  /\ res.arg = NoFilter /\ store # <<>>

\* the operations that answer with an envelope
Envelopes == {"create", "findById", "findMany", "updateById", "deleteById", "deleteMany"}

\* C28: an envelope is a Success or a Failure.  A Success carries no error
\* message.  A Failure carries nothing but its message: no data and no
\* id from create and findById, empty data and total 0 from findMany, no
\* data and a count of 0 from updateById, a count of 0 from the deletes.
C28_EnvelopeIsSuccessOrFailure ==
  res.op \in Envelopes =>
    /\ res.success \in BOOLEAN
    /\ res.success => res.error = <<>>
    /\ ~res.success =>
         /\ res.op \in {"create", "findById", "findMany", "updateById"} => res.data = <<>>
         /\ res.op = "create" => res.id = NoId
         /\ res.op = "findMany" => res.total = 0
         /\ res.op = "updateById" => res.modifiedCount = 0
         /\ res.op \in {"deleteById", "deleteMany"} => res.deletedCount = 0

\* findMany failed on its count after its page had been fetched from a
\* store that holds records
C28_Witness ==
  /\ res.op = "findMany" /\ ~res.success
  /\ res.calls = <<"toArray", "countDocuments">>
  /\ res.arg.filter = NoFilter /\ Limit(res.arg.options) > 0 /\ Skip(res.arg.options) = 0
  /\ store # <<>>

\* C29 (as stated): an operation that issues a store call while the
\* manager holds a handle issues it on that handle, also after a
\* disconnect() and a new connect().
C29_OperationsUseCurrentHandle ==
  [][Len(ops') > Len(ops) /\ db # 0 => engine.handle = db]_vars

\* the client the engine's collection belongs to has been closed
Closed == engine.handle # 0 /\ clients[engine.handle] = "closed"

Creating == {i \in 1..Len(ops) : ops[i].op = "create"}

C32_ResultIsOneSnapshot ==
  /\ res.op = "findMany" /\ res.success
  /\ res.arg.filter = NoFilter /\ res.arg.options = NoOptions
  => Len(res.data) = res.total

\* C39 (as stated): a Success of findMany never holds more records in
\* data than its total says, whatever create and delete callers do
\* meanwhile.
C39_PageWithinTotal ==
  res.op = "findMany" /\ res.success => Len(res.data) <= res.total

\* a stored record has every declared key with a value the schema accepts
StoredShape(doc) == \A k \in 1..Len(Fields) : doc[Fields[k]] \in Valid

\* C33 (as stated): every record of the store satisfies the declared
\* shape, whatever operations ran and whatever their update payloads held.
C33_StoreSatisfiesShape ==
  \A k \in 1..Len(store) : StoredShape(store[k])

\* C33 (amended): create() persists only records that satisfy the shape,
\* and a stored record stops satisfying it only when an updateOne on its
\* id carries an operator other than $set, which is applied unvalidated.
C33_OnlyUnvalidatedOperatorsBreakShape ==
  [][\A k \in 1..Len(store') :
       store' # store /\ ~StoredShape(store'[k])
       => \/ \E j \in 1..Len(store) :
               store[j]._id = store'[k]._id /\ ~StoredShape(store[j])
          \/ \E i \in 1..Len(ops) :
               /\ ops[i].op = "updateById" /\ ops[i].pc = "updateOne"
               /\ ops[i].id = store'[k]._id
               /\ ops[i].arg.update.unset # {}]_vars

\* a $set payload changed a stored record, and the store satisfies the shape
C33_Witness ==
  /\ res.op = "updateById" /\ res.success /\ res.modifiedCount = 1
  /\ res.arg.update.hasSet /\ res.arg.update.unset = {}
  /\ Len(store) >= 2
  /\ \A k \in 1..Len(store) : StoredShape(store[k])

\* the identifier an operation in flight was called with
IdArg(o) == IF o.op = "updateById" THEN o.arg.id ELSE o.arg

\* the operations in flight that take an identifier
IdOps ==
  {i \in 1..Len(ops) : ops[i].op \in {"findById", "updateById", "deleteById", "exists"}}

\* C34: in native-id mode an operation called with the 24-digit string of
\* an ObjectId queries the store with the ObjectId parsed from it, never
\* with the string, and answers as the store holds that ObjectId: as the
\* same operation called with the ObjectId itself does.
C34_StringIdIsParsed ==
  /\ [](engine.useObjectId =>
          \A i \in IdOps : /\ ops[i].id = OID(IdArg(ops[i]).n)
                           /\ ops[i].id.kind # "string")
  /\ [][\A i \in IdOps :
          engine.useObjectId /\ IdArg(ops[i]) = Hex(IdArg(ops[i]).n)
          => LET held == ~AbsentId(OID(IdArg(ops[i]).n))
             IN /\ FindOneReturns(i, "ok") => res'.success = held
                /\ ExistsReturns(i, "ok") => res'.value = held
                /\ DeleteOneReturns(i, "ok", TRUE)
                   => res'.deletedCount = IF held THEN 1 ELSE 0
                /\ UpdateOneReturns(i, "ok", TRUE)
                   => ops'[i].after = FindOne(OID(IdArg(ops[i]).n))']_vars

\* findById with the string of the first ObjectId returned the record
\* stored under that ObjectId
C34_Witness ==
  /\ engine.useObjectId
  /\ res.op = "findById" /\ res.arg = Hex(1)
  /\ res.success /\ res.data[1]._id = OID(1)

\* C35: at most one client.connect() is in flight at any time, the flag
\* isConnecting is up exactly while one is, and an attempt begins only
\* when none is pending, whatever connect() and disconnect() calls overlap.
C35_OneAttemptInFlight ==
  /\ [](Cardinality(attempts) <= 1 /\ (isConnecting <=> attempts # {}))
  /\ [][attempts' \ attempts # {} => attempts = {} /\ ~isConnecting]_vars

\* an attempt is in flight while a caller polls the flag and a disconnect()
\* awaits its close
C35_Witness ==
  /\ Cardinality(attempts) = 1
  /\ waiters > 0
  /\ closing # <<>>

\* the clients this model allows are used up and none of them is connected
OutOfClients == Len(clients) = MaxClients /\ db = 0

Closing(n) ==
  \/ \E i \in 1..Len(closing) : closing[i] = n
  \/ \E i \in 1..Len(shutdowns) :
       shutdowns[i].disc = "pending" /\ shutdowns[i].target = n

\* C37 (as stated): while isConnectionActive() is true, close() has not
\* been invoked on the manager's current client: the client is neither
\* closing nor closed, and the handle given out is that client's.
C37_ActiveClientNotClosing ==
  IsConnectionActive
  => /\ ~Closing(client)
     /\ clients[client] = "open"
     /\ db = client

\* C37 (amended): while isConnectionActive() is true the manager's current
\* client is connected and not closed and the handle is that client's, and
\* a handle that connect() returns belongs to a client that is open then;
\* a close() that was invoked and has not yet resolved does not count.
C37_ActiveClientNotClosed ==
  /\ [](IsConnectionActive => clients[client] = "open" /\ db = client)
  /\ [](~GetDb.threw => clients[GetDb.value] = "open")
  /\ [][out' # out /\ out'.op = "connect" /\ ~out'.threw
        => clients'[out'.handle] = "open"]_vars

\* the manager reports Connected while a disconnect() awaits the close of
\* its client
C37_Witness ==
  /\ IsConnectionActive
  /\ Closing(client)
  /\ clients[client] = "open"

\* C38 (as stated): an updateById that returns Failure has not modified
\* the store: when its updateOne throws the store is as it was, and when
\* its re-fetch settles, throwing or not, the modifiedCount it reports is
\* the number of records its updateOne modified.
C38_FailureModifiedNothing ==
  [][\A i \in 1..Len(ops) :
       /\ UpdateOneReturns(i, "throws", TRUE) => store' = store
       /\ RefetchReturns(i, "throws") \/ RefetchReturns(i, "ok")
          => res'.modifiedCount = ops[i].modifiedCount]_vars

\* the identifiers the engine has generated so far
Generated == {GenerateId(engine.useObjectId, n) : n \in 1..nextId}

====
